---- MODULE Spec2Model ----
(***************************************************************************)
(* Model of the Mailora backend's email-generation pipeline                *)
(* (src/server.js).  The source file holds two servers:                    *)
(*   variant "A": lines   1-287, route POST /api/generate-email            *)
(*   variant "B": lines 289-518, route POST /generate-email                *)
(* Both are modelled; definitions that exist twice in the source carry the *)
(* suffix A or B.                                                          *)
(*                                                                         *)
(* Conventions.  A JavaScript string is a TLA+ string; a multi-line text   *)
(* (a prompt, an email) is the sequence of its lines, so the text "" is    *)
(* <<"">> and every text has at least one line.  The JavaScript value      *)
(* undefined is ABSENT, a non-string JSON value is NUMBER5.  String        *)
(* literals of the source that are not ASCII are written in ASCII          *)
(* transliteration.                                                        *)
(***************************************************************************)
EXTENDS Naturals, Sequences, FiniteSets, TLC

VARIABLES variant, apiKey, pc, body, calls, sent, outcome, reply, res

vars == <<variant, apiKey, pc, body, calls, sent, outcome, reply, res>>

----------------------------------------------------------------------------
(* JavaScript values and coercions *)

ABSENT == "<undefined>"
NUMBER5 == "<number 5>"

\* !v
Falsy(v) == v = ABSENT \/ v = ""

\* a || b
Or(a, b) == IF Falsy(a) THEN b ELSE a

\* typeof v === 'string'
IsString(v) == v # ABSENT /\ v # NUMBER5

\* `${v}`
Str(v) == IF v = ABSENT THEN "undefined" ELSE IF v = NUMBER5 THEN "5" ELSE v

\* table[key] of an object literal
Lookup(table, key) == IF key \in DOMAIN table THEN table[key] ELSE ABSENT

\* String.prototype.toLowerCase, on the tone values of the model
ToLowerCase(s) == IF s = "Professional" THEN "professional" ELSE s

----------------------------------------------------------------------------
(* The inputs: request bodies, credentials, provider answers *)

Subjects == {ABSENT, "", "Project Update"}
Purposes == {ABSENT, "", "Follow up"}
Tones == {ABSENT, "casual", "Professional", NUMBER5}
Lengths == {ABSENT, "short", "medium", "long", "huge"}
Languages == {ABSENT, "en", "es", "de", "xx"}
RecipientNames == {ABSENT, "Alex"}
PersonalNotes == {ABSENT, "See you on Monday."}

Bodies ==
    [recipientName : RecipientNames, subject : Subjects, tone : Tones,
     personalNote : PersonalNotes, length : Lengths, language : Languages,
     purpose : Purposes]

NoBody ==
    [recipientName |-> ABSENT, subject |-> ABSENT, tone |-> ABSENT,
     personalNote |-> ABSENT, length |-> ABSENT, language |-> ABSENT,
     purpose |-> ABSENT]

PLACEHOLDER_KEY == "your_gemini_api_key_here"

\* process.env.GEMINI_API_KEY
ApiKeys == {ABSENT, "", PLACEHOLDER_KEY, "AIza-secret"}

\* data.candidates?.[0]?.content?.parts?.[0]?.text of a provider answer
ProviderTexts ==
    {<<"Subject: Project Update", "", "Hi Alex,", "", "All good.  ">>,
     <<"  Hello">>}

NoText == <<"">>

\* What the pending fetch can settle with: an HTTP answer (ok flag, whether
\* the body parses as JSON, whether the text field is there, the text), or a
\* rejection (network failure).
Answers ==
    {a \in [kind : {"http"}, ok : BOOLEAN, json : BOOLEAN, hasText : BOOLEAN,
            text : ProviderTexts \cup {NoText}] :
        /\ a.hasText => a.json
        /\ ~a.hasText => a.text = NoText}
    \cup
    [kind : {"reject"}, ok : {FALSE}, json : {FALSE}, hasText : {FALSE},
     text : {NoText}]

NoAnswer ==
    [kind |-> "none", ok |-> FALSE, json |-> FALSE, hasText |-> FALSE,
     text |-> NoText]

----------------------------------------------------------------------------
(* Configuration tables and pure functions *)

lengthMap ==
    [k \in {"short", "medium", "long"} |->
        CASE k = "short" -> "3-4 sentences"
          [] k = "medium" -> "5-7 sentences"
          [] k = "long" -> "8-10 sentences"]

LanguageCodes == {"en", "es", "fr", "de", "hi", "ja", "zh", "ar", "pt", "ru"}

languageInstructions ==
    [k \in LanguageCodes |->
        CASE k = "en" -> "Write in English"
          [] k = "es" -> "Escribe en Espanol"
          [] k = "fr" -> "Ecris en Francais"
          [] k = "de" -> "Schreibe auf Deutsch"
          [] k = "hi" -> "Hindi mein likhen"
          [] k = "ja" -> "Nihongo de kaite kudasai"
          [] k = "zh" -> "Yong zhongwen xie"
          [] k = "ar" -> "Uktub bil-arabiyya"
          [] k = "pt" -> "Escreva em Portugues"
          [] k = "ru" -> "Pishite na russkom"]

languageMap ==
    [k \in LanguageCodes |->
        CASE k = "en" -> "English"
          [] k = "es" -> "Spanish"
          [] k = "fr" -> "French"
          [] k = "de" -> "German"
          [] k = "hi" -> "Hindi"
          [] k = "ja" -> "Japanese"
          [] k = "zh" -> "Chinese"
          [] k = "ar" -> "Arabic"
          [] k = "pt" -> "Portuguese"
          [] k = "ru" -> "Russian"]

tokenMap ==
    [k \in {"short", "medium", "long"} |->
        CASE k = "short" -> 800
          [] k = "medium" -> 1200
          [] k = "long" -> 1800]

getMaxTokens(length) ==
    IF length \in DOMAIN tokenMap THEN tokenMap[length] ELSE 1200

\* The LENGTH line of a prompt: `LENGTH: ${lengthMap[length]}`
LengthLine(length) == "LENGTH: " \o Str(Lookup(lengthMap, length))

\* tone.toLowerCase() throws a TypeError when tone is not a string
PromptThrowsA(tone) == ~IsString(tone)

\* The text is trimmed, so it starts at its first non-empty line.
createEmailPromptA(recipientName, subject, tone, personalNote, length, language) ==
    << "Generate a professional email with the following specifications:",
       "",
       "LANGUAGE: " \o Or(Lookup(languageInstructions, language), "English"),
       "RECIPIENT: " \o Str(Or(recipientName, "[Recipient Name]")),
       "SUBJECT: " \o Str(subject),
       "TONE: " \o Str(tone),
       LengthLine(length),
       IF Falsy(personalNote) THEN ""
       ELSE "PERSONAL NOTE TO INCLUDE: " \o Str(personalNote),
       "",
       "IMPORTANT INSTRUCTIONS:",
       "- Start with \"Subject: [the provided subject]\"",
       "- Use appropriate greeting and closing for the specified language",
       "- Maintain " \o ToLowerCase(tone) \o " tone throughout",
       "- Sound natural and human-like",
       "- Be professional and appropriate for business communication",
       "- Include the personal note if provided",
       "- Format with proper line breaks and paragraphs",
       "- Use culturally appropriate expressions for the target language",
       "- Ensure grammatical correctness in the specified language",
       "",
       "Generate only the email content without any additional explanations or markdown formatting." >>

\* Not trimmed: the text starts and ends with a line break.
createEmailPromptB(recipientName, subject, tone, personalNote, length, language) ==
    << "",
       "Create a professional email in "
           \o Or(Lookup(languageMap, language), "English")
           \o " with these details:",
       "",
       "RECIPIENT: " \o Str(Or(recipientName, "Customer")),
       "SUBJECT: " \o Str(subject),
       "TONE: " \o Str(tone),
       LengthLine(length),
       "LANGUAGE: " \o Or(Lookup(languageMap, language), "English"),
       IF Falsy(personalNote) THEN ""
       ELSE "ADDITIONAL CONTEXT: " \o Str(personalNote),
       "",
       "Requirements:",
       "- Start with \"Subject: " \o Str(subject) \o "\"",
       "- Use appropriate greeting and closing",
       "- Maintain " \o Str(tone) \o " tone throughout",
       "- Sound natural and human-like",
       "- Be professional for business communication",
       "- Include the additional context if provided",
       "- Use proper formatting with line breaks",
       "",
       "Generate only the email content without any explanations.",
       "" >>

\* `${personalNote ? personalNote + '\n\n' : ''}` in front of the closing line
NoteParagraph(personalNote) ==
    IF Falsy(personalNote) THEN <<>> ELSE <<Str(personalNote), "">>

\* One template: subject label, greeting, opening, note, closing, signature.
Template(label, greeting, opening, closing, regards, signature, subject, recipient, personalNote) ==
    << label \o ": " \o Str(subject), "",
       greeting \o " " \o Str(recipient) \o ",", "",
       opening, "" >>
    \o NoteParagraph(personalNote)
    \o << closing, "", regards, signature >>

templatesA(recipientName, subject, personalNote) ==
    [k \in {"en", "es", "fr", "de", "hi"} |->
        CASE k = "en" ->
               Template("Subject", "Dear", "I hope this email finds you well.",
                        "Thank you for your time and consideration.",
                        "Best regards,", "[Your Name]",
                        subject, recipientName, personalNote)
          [] k = "es" ->
               Template("Asunto", "Estimado/a",
                        "Espero que este correo le encuentre bien.",
                        "Gracias por su tiempo y consideracion.",
                        "Atentamente,", "[Su Nombre]",
                        subject, recipientName, personalNote)
          [] k = "fr" ->
               Template("Objet", "Cher",
                        "J'espere que ce courriel vous trouvera en bonne sante.",
                        "Merci pour votre temps et votre consideration.",
                        "Cordialement,", "[Votre Nomme]",
                        subject, recipientName, personalNote)
          [] k = "de" ->
               Template("Betreff", "Sehr geehrte/r",
                        "Ich hoffe, diese E-Mail erreicht Sie wohlbehalten.",
                        "Vielen Dank fur Ihre Zeit und Ihre Uberlegungen.",
                        "Mit freundlichen Grussen,", "[Ihr Name]",
                        subject, recipientName, personalNote)
          [] k = "hi" ->
               Template("Vishay", "Priy",
                        "Mujhe asha hai ki yah email aapko achchhi tarah milega.",
                        "Aapke samay aur vichar ke liye dhanyavad.",
                        "Sadar,", "[Aapka Naam]",
                        subject, recipientName, personalNote)]

createFallbackEmailA(recipientName, subject, tone, personalNote, language, length) ==
    LET templates == templatesA(recipientName, subject, personalNote)
    IN  IF language \in DOMAIN templates THEN templates[language]
        ELSE templates["en"]

templatesB(recipientName, subject, personalNote) ==
    [k \in {"en", "hi", "es"} |->
        CASE k = "en" ->
               Template("Subject", "Dear", "I hope this email finds you well.",
                        "Thank you for your time and consideration.",
                        "Best regards,", "[Your Name]",
                        subject, Or(recipientName, "Customer"), personalNote)
          [] k = "hi" ->
               Template("Vishay", "Priy",
                        "Mujhe asha hai ki yah email aapko achchhi tarah milega.",
                        "Aapke samay aur vichar ke liye dhanyavad.",
                        "Sadar,", "[Aapka Naam]",
                        subject, Or(recipientName, "Grahak"), personalNote)
          [] k = "es" ->
               Template("Asunto", "Estimado/a",
                        "Espero que este correo le encuentre bien.",
                        "Gracias por su tiempo y consideracion.",
                        "Atentamente,", "[Su Nombre]",
                        subject, Or(recipientName, "Cliente"), personalNote)]

createFallbackEmailB(recipientName, subject, tone, personalNote, language, length) ==
    LET templates == templatesB(recipientName, subject, personalNote)
    IN  IF language \in DOMAIN templates THEN templates[language]
        ELSE templates["en"]

----------------------------------------------------------------------------
(* Responses *)

NoMetadata ==
    [language |-> ABSENT, tone |-> ABSENT, length |-> ABSENT,
     generatedAt |-> ABSENT, note |-> ABSENT]

\* new Date().toISOString()
Now == "<ISO timestamp>"

NoEmail == <<>>

NoResponse ==
    [status |-> 0, success |-> ABSENT, error |-> ABSENT, email |-> NoEmail,
     metadata |-> NoMetadata]

\* res.status(code).json({ error })
ErrorResponse(code, success, message) ==
    [status |-> code, success |-> success, error |-> message,
     email |-> NoEmail, metadata |-> NoMetadata]

\* res.json({ success: true, email, metadata })
EmailResponse(email, metadata) ==
    [status |-> 200, success |-> "true", error |-> ABSENT, email |-> email,
     metadata |-> metadata]

SUBJECT_REQUIRED == "Email subject or purpose is required"
FIELDS_REQUIRED == "Language, tone, and length are required fields"
CONFIG_ERROR == "API configuration error - Please set GEMINI_API_KEY in environment variables"
TIMEOUT_ERROR == "Request timeout. Please try again."
NOTE_FALLBACK == "Generated using fallback method"
NOTE_NO_KEY == "Fallback email (API key not set)"

TimeoutMs == 30000

\* The name of the rejection of a fetch whose AbortSignal.timeout() fired:
\* the signal's reason (a TimeoutError) where fetch passes the reason on, an
\* AbortError where it rejects with its own abort exception.
TimeoutRejectionNames == {"TimeoutError", "AbortError"}

NoCall == [model |-> ABSENT, prompt |-> <<>>, maxOutputTokens |-> 0, signal |-> {}]

----------------------------------------------------------------------------
(* The two handlers *)

\* Variant of MissingSubject that tests for undefined only, so that an
\* empty string counts as a subject.
MissingSubject_UndefinedOnly(b) == b.subject = ABSENT /\ b.purpose = ABSENT

\* !subject && !purpose
MissingSubject(b) == Falsy(b.subject) /\ Falsy(b.purpose)

\* !language || !tone || !length
MissingFieldsA(b) == Falsy(b.language) \/ Falsy(b.tone) \/ Falsy(b.length)

\* !apiKey || apiKey === 'your_gemini_api_key_here'
UnconfiguredA(key) == Falsy(key) \/ key = PLACEHOLDER_KEY

\* !apiKey
UnconfiguredB(key) == Falsy(key)

\* The success response of handler A
SuccessResponseA(b, text) ==
    EmailResponse(text,
        [language |-> b.language, tone |-> b.tone, length |-> b.length,
         generatedAt |-> Now, note |-> ABSENT])

\* Variant of CatchA that hands every error but the timeout to the error
\* middleware instead of falling back.
CatchA_Surfaced(name, b) ==
    IF name = "AbortError"
    THEN ErrorResponse(408, ABSENT, TIMEOUT_ERROR)
    ELSE ErrorResponse(500, ABSENT, "Internal server error")

\* The catch block of handler A
CatchA(name, b) ==
    IF name = "AbortError"
    THEN ErrorResponse(408, ABSENT, TIMEOUT_ERROR)
    ELSE EmailResponse(
            createFallbackEmailA(Or(b.recipientName, "[Recipient Name]"),
                                 Or(Or(b.subject, b.purpose), "Email"),
                                 Or(b.tone, "Professional"),
                                 Or(b.personalNote, ""),
                                 Or(b.language, "en"),
                                 Or(b.length, "medium")),
            [language |-> Or(b.language, "en"),
             tone |-> Or(b.tone, "Professional"),
             length |-> Or(b.length, "medium"),
             generatedAt |-> Now, note |-> NOTE_FALLBACK])

\* Variant of SuccessResponseB that drops the subject line of the provider's
\* text.
SuccessResponseB_StripSubject(b, text) ==
    EmailResponse(IF Len(text) > 1 THEN Tail(text) ELSE text,
        [language |-> Or(b.language, "en"), tone |-> Or(b.tone, "Professional"),
         length |-> Or(b.length, "medium"), generatedAt |-> Now,
         note |-> ABSENT])

\* The success response of handler B
SuccessResponseB(b, text) ==
    EmailResponse(text,
        [language |-> Or(b.language, "en"), tone |-> Or(b.tone, "Professional"),
         length |-> Or(b.length, "medium"), generatedAt |-> Now,
         note |-> ABSENT])

\* The response of handler B when no key is set
NoKeyResponseB(b) ==
    EmailResponse(
        createFallbackEmailB(b.recipientName, Or(b.subject, b.purpose), b.tone,
                             b.personalNote, b.language, b.length),
        [NoMetadata EXCEPT !.note = NOTE_NO_KEY])

\* The catch block of handler B
CatchB(name, b) ==
    EmailResponse(
        createFallbackEmailB(b.recipientName, Or(b.subject, b.purpose), b.tone,
                             b.personalNote, b.language, b.length),
        [NoMetadata EXCEPT !.note = NOTE_FALLBACK])

\* The error a settled fetch makes the code after it throw ("" when none):
\* a rejected fetch, response.json() on a body that is not JSON, a status
\* that is not ok, a body without the text.
ThrownBy(a) ==
    IF a.kind = "reject" THEN "TypeError"
    ELSE IF ~a.json THEN "SyntaxError"
    ELSE IF ~a.ok THEN "Error"
    ELSE IF ~a.hasText \/ a.text = NoText THEN "Error"
    ELSE ""

Respond(r) ==
    /\ res' = r
    /\ pc' = "done"

\* fetch(url, { ..., signal }): one outbound call, then the handler awaits
Fetch(model, prompt, length, signal) ==
    /\ calls' = calls + 1
    /\ sent' = [model |-> model, prompt |-> prompt,
                maxOutputTokens |-> getMaxTokens(length), signal |-> signal]
    /\ outcome' = "pending"
    /\ pc' = "awaiting"
    /\ UNCHANGED res

\* The request arrives at POST /api/generate-email; the handler runs up to
\* its response or up to the await of the fetch.
ReceiveA ==
    /\ pc = "idle"
    /\ variant = "A"
    /\ \E b \in Bodies :
        /\ body' = b
        /\ IF MissingSubject(b)
           THEN /\ Respond(ErrorResponse(400, ABSENT, SUBJECT_REQUIRED))
                /\ UNCHANGED <<calls, sent, outcome>>
           ELSE IF MissingFieldsA(b)
           THEN /\ Respond(ErrorResponse(400, ABSENT, FIELDS_REQUIRED))
                /\ UNCHANGED <<calls, sent, outcome>>
           ELSE IF PromptThrowsA(b.tone)
           THEN /\ Respond(CatchA("TypeError", b))
                /\ UNCHANGED <<calls, sent, outcome>>
           ELSE IF UnconfiguredA(apiKey)
           THEN /\ Respond(ErrorResponse(500, ABSENT, CONFIG_ERROR))
                /\ UNCHANGED <<calls, sent, outcome>>
           ELSE Fetch("gemini-pro",
                      createEmailPromptA(b.recipientName, Or(b.subject, b.purpose),
                                         b.tone, b.personalNote, b.length,
                                         b.language),
                      b.length, {TimeoutMs})
    /\ UNCHANGED <<variant, apiKey, reply>>

\* The fetch of handler A settles and the handler runs to its response.
FetchSettlesA ==
    /\ pc = "awaiting"
    /\ variant = "A"
    /\ outcome = "pending"
    /\ \E a \in Answers :
        /\ reply' = a
        /\ IF ThrownBy(a) # ""
           THEN Respond(CatchA(ThrownBy(a), body))
           ELSE Respond(SuccessResponseA(body, a.text))
    /\ outcome' = "settled"
    /\ UNCHANGED <<variant, apiKey, body, calls, sent>>

\* AbortSignal.timeout(30000) fires before the fetch settled.
FetchTimesOutA ==
    /\ pc = "awaiting"
    /\ variant = "A"
    /\ sent.signal # {}
    /\ outcome \in {"pending", "hung"}
    /\ \E name \in TimeoutRejectionNames : Respond(CatchA(name, body))
    /\ outcome' = "timeout"
    /\ UNCHANGED <<variant, apiKey, body, calls, sent, reply>>

\* The request arrives at POST /generate-email.
ReceiveB ==
    /\ pc = "idle"
    /\ variant = "B"
    /\ \E b \in Bodies :
        /\ body' = b
        /\ IF MissingSubject(b)
           THEN /\ Respond(ErrorResponse(400, "false", SUBJECT_REQUIRED))
                /\ UNCHANGED <<calls, sent, outcome>>
           ELSE IF UnconfiguredB(apiKey)
           THEN /\ Respond(NoKeyResponseB(b))
                /\ UNCHANGED <<calls, sent, outcome>>
           ELSE Fetch("gemini-1.5-flash",
                      createEmailPromptB(b.recipientName, Or(b.subject, b.purpose),
                                         b.tone, b.personalNote, b.length,
                                         b.language),
                      b.length, {})
    /\ UNCHANGED <<variant, apiKey, reply>>

\* Variant of FetchSettlesB that calls the service a second time when the
\* first call failed.
FetchSettlesB_Retry ==
    /\ pc = "awaiting"
    /\ variant = "B"
    /\ outcome = "pending"
    /\ \E a \in Answers :
        /\ reply' = a
        /\ IF ThrownBy(a) # "" /\ calls < 2
           THEN /\ calls' = calls + 1
                /\ UNCHANGED <<pc, res, outcome>>
           ELSE /\ outcome' = "settled"
                /\ UNCHANGED calls
                /\ IF ThrownBy(a) # ""
                   THEN Respond(CatchB(ThrownBy(a), body))
                   ELSE Respond(SuccessResponseB(body, a.text))
    /\ UNCHANGED <<variant, apiKey, body, sent>>

\* The fetch of generateWithGemini settles and handler B runs to its response.
FetchSettlesB ==
    /\ pc = "awaiting"
    /\ variant = "B"
    /\ outcome = "pending"
    /\ \E a \in Answers :
        /\ reply' = a
        /\ IF ThrownBy(a) # ""
           THEN Respond(CatchB(ThrownBy(a), body))
           ELSE Respond(SuccessResponseB(body, a.text))
    /\ outcome' = "settled"
    /\ UNCHANGED <<variant, apiKey, body, calls, sent>>

\* The external service never answers the pending call.
ProviderHangs ==
    /\ pc = "awaiting"
    /\ outcome = "pending"
    /\ outcome' = "hung"
    /\ UNCHANGED <<variant, apiKey, pc, body, calls, sent, reply, res>>

\* The response is sent; the request's entities are discarded and the server
\* waits for the next request.
Close ==
    /\ pc = "done"
    /\ pc' = "idle"
    /\ body' = NoBody
    /\ calls' = 0
    /\ sent' = NoCall
    /\ outcome' = "none"
    /\ reply' = NoAnswer
    /\ res' = NoResponse
    /\ UNCHANGED <<variant, apiKey>>

Init ==
    /\ variant \in {"A", "B"}
    /\ apiKey \in ApiKeys
    /\ pc = "idle"
    /\ body = NoBody
    /\ calls = 0
    /\ sent = NoCall
    /\ outcome = "none"
    /\ reply = NoAnswer
    /\ res = NoResponse

Next ==
    \/ ReceiveA
    \/ FetchSettlesA
    \/ FetchTimesOutA
    \/ ReceiveB
    \/ FetchSettlesB
    \/ ProviderHangs
    \/ Close

Spec == Init /\ [][Next]_vars

\* The timer of AbortSignal.timeout is the only step the runtime is bound to
\* take; the external service owes no answer.
FairSpec == Spec /\ WF_vars(FetchTimesOutA) /\ WF_vars(Close)

----------------------------------------------------------------------------
(* The properties *)

\* Both subject and purpose are empty or absent.
BothEmpty(b) == b.subject \in {ABSENT, ""} /\ b.purpose \in {ABSENT, ""}

\* No usable credential: absent, empty, or the placeholder.
NoUsableCredential == apiKey \in {ABSENT, "", PLACEHOLDER_KEY}

\* A successful result; its source is Fallback when the metadata carries a
\* note, Generated when it carries none.
IsSuccess(r) ==
    r.status = 200 /\ r.success = "true" /\ r.error = ABSENT /\ r.email # NoEmail

IsFallback(r) == IsSuccess(r) /\ r.metadata.note # ABSENT

IsGenerated(r) == IsSuccess(r) /\ r.metadata.note = ABSENT

\* The template email of the request, as either server builds it.
IsTemplateEmail(e, b) ==
    \/ e = createFallbackEmailA(Or(b.recipientName, "[Recipient Name]"),
                                Or(Or(b.subject, b.purpose), "Email"),
                                Or(b.tone, "Professional"),
                                Or(b.personalNote, ""), Or(b.language, "en"),
                                Or(b.length, "medium"))
    \/ e = createFallbackEmailB(b.recipientName, Or(b.subject, b.purpose),
                                b.tone, b.personalNote, b.language, b.length)

\* C1: a request that passes validation (subject or purpose non-empty) while
\* no usable credential is present is answered with a successful Fallback
\* result carrying the template email and the fallback note, never with an
\* error response.
C1_UnconfiguredYieldsFallback ==
    (pc = "done" /\ ~BothEmpty(body) /\ NoUsableCredential)
        => /\ IsFallback(res)
           /\ IsTemplateEmail(res.email, body)

\* C2: when a credential is configured and the external call hangs, the
\* request eventually completes, and it completes with a Fallback result.
C2_HungCallEndsInFallback ==
    (outcome = "hung" /\ ~NoUsableCredential)
        ~> (pc = "done" /\ IsFallback(res))

\* C3: a request whose subject and purpose are both empty or absent is
\* rejected with the MissingSubject validation error; no external call is
\* made and no generated or fallback text is produced.
C3_MissingSubjectRejected ==
    (pc # "idle" /\ BothEmpty(body))
        => /\ pc = "done"
           /\ res.status = 400
           /\ res.error = SUBJECT_REQUIRED
           /\ res.email = NoEmail
           /\ calls = 0
           /\ sent = NoCall

C3_Witness ==
    /\ pc = "done"
    /\ body.subject = ""
    /\ body.purpose = ""
    /\ apiKey = "AIza-secret"
    /\ res.status = 400
    /\ res.error = SUBJECT_REQUIRED

\* C4: a request with a non-empty subject or purpose is never rejected by
\* validation, whatever its other fields are, absent ones included.
C4_ValidNeverRejected ==
    (pc = "done" /\ ~BothEmpty(body))
        => /\ res.status # 400
           /\ res.error \notin {SUBJECT_REQUIRED, FIELDS_REQUIRED}

\* The external service answered with a non-success status, or with a
\* success status whose body lacks the generated text.
FailedAnswer ==
    /\ outcome = "settled"
    /\ reply.kind = "http"
    /\ (~reply.ok \/ ~reply.hasText)

GoodAnswer ==
    /\ outcome = "settled"
    /\ reply.kind = "http"
    /\ reply.ok
    /\ reply.hasText
    /\ reply.text # NoText

\* C6: when the external service returns a success response with well-formed
\* text, the result is Generated, its text is the provider's string
\* unmodified, and its metadata has no fallback note.
C6_SuccessPassedThrough ==
    (pc = "done" /\ GoodAnswer)
        => /\ IsGenerated(res)
           /\ res.email = reply.text
           /\ res.metadata.note = ABSENT

C6_Witness ==
    /\ pc = "done"
    /\ variant = "B"
    /\ GoodAnswer
    /\ Len(reply.text) > 1
    /\ res.email = reply.text
    /\ ~NoUsableCredential

\* C7: in the handling of one request at most one outbound call to the
\* external service is made, on every path.
C7_AtMostOneCall == calls <= 1

C7_Witness ==
    /\ pc = "done"
    /\ calls = 1
    /\ FailedAnswer
    /\ IsFallback(res)

\* C8: when the credential is absent, empty or the placeholder, no outbound
\* call is made for the request.
C8_UnconfiguredMakesNoCall == NoUsableCredential => calls = 0

\* C9: every successful result, Generated or Fallback, has metadata with
\* language, tone, length and a generation timestamp.
C9_SameShape ==
    (pc = "done" /\ IsSuccess(res))
        => /\ res.metadata.language # ABSENT
           /\ res.metadata.tone # ABSENT
           /\ res.metadata.length # ABSENT
           /\ res.metadata.generatedAt # ABSENT

\* C10: for a length that is not short, medium or long (an absent one
\* included) the compiled prompt carries the medium descriptor
\* '5-7 sentences' and the maximum output size is 1200.
C10_UnknownLengthIsMedium ==
    (calls = 1 /\ body.length \notin {"short", "medium", "long"})
        => /\ \E i \in DOMAIN sent.prompt :
                sent.prompt[i] = "LENGTH: 5-7 sentences"
           /\ sent.maxOutputTokens = 1200

====
